---- MODULE Spec2Model ----
(***************************************************************************)
(* tablet_wallpaper: the wallpaper compositor of src/src/main.c.           *)
(*                                                                         *)
(* The state is the program's global state (monitors[], virtual_desktop),  *)
(* the locals of wallpaper_generate() that live across its loops, the      *)
(* locals of wmain() and of the message loop, and the position of the      *)
(* single thread inside wmain() and wallpaper_update().  What the platform *)
(* and the image library answer (display enumeration, image I/O) is drawn  *)
(* from small sets.                                                        *)
(***************************************************************************)
EXTENDS Integers, Sequences, FiniteSets, TLC

VARIABLES
    monitors,         \* static struct monitor monitors[MONITOR_COUNT_MAX]
    virtual_desktop,  \* struct rectangle virtual_desktop
    pc,               \* where the thread is inside wmain() and
                      \* wallpaper_update()
    idx,              \* the loop index i of the loop the thread is in
    wallpapers,       \* MagickWand *wallpapers[] of wallpaper_generate()
    canvas,           \* MagickWand *canvas of wallpaper_generate()
    gen_err,          \* int err of wallpaper_generate()
    platform,         \* what the platform can answer in this run: the DEVMODEs
                      \* it reports, the image files on disk (path ->
                      \* <<width, height>>), whether library calls can fail
    out_file,         \* cycle whose canvas the output file holds (0: none)
    installed,        \* cycle whose file the desktop shows (0: none)
    cycle,            \* number of the running wallpaper_update() call
    cyc,              \* what the running cycle has done so far
    queue,            \* the messages waiting for the thread's GetMessage()
    proc              \* the process: int err of wmain(), whether the
                      \* configuration is loaded and the notifier window
                      \* exists, the calls of InitializeMagick() and
                      \* DestroyMagick() so far, MSG msg of the message loop

vars == <<monitors, virtual_desktop, pc, idx, wallpapers, canvas, gen_err,
          platform, out_file, installed, cycle, cyc, queue, proc>>

----------------------------------------------------------------------------
(* Bounds of the model.  The array holds 8 slots in the source             *)
(* (MONITOR_COUNT_MAX, main.c:24); the model runs it with fewer.           *)
MONITOR_COUNT_MAX == 3
MaxCycles == 2
(* largest width and height of the images and monitors the style engine is *)
(* run on                                                                  *)
MaxDim == 4
(* largest coordinate and size of the rectangles union is run on *)
MaxPos == 2
(* most messages waiting in the thread's queue *)
MaxQueue == 2

(* enum monitor_orientation *)
ORIENT_0 == 0
ORIENT_90 == 1
ORIENT_180 == 2
ORIENT_270 == 3
NUM_MONITOR_ORIENTS == 4
ORIENT_UNKNOWN == 5

NULL == "NULL"

MonIdx == 0 .. (MONITOR_COUNT_MAX - 1)
Orients == 0 .. (NUM_MONITOR_ORIENTS - 1)
Styles == {"fit_no_cut", "fit_edge_cut", "stretch", "tile", "center"}

Abs(v) == IF v < 0 THEN -v ELSE v

ZeroInfo ==
    [x |-> 0, y |-> 0, width |-> 0, height |-> 0, orientation |-> 0,
     is_primary |-> 0]

ZeroRect == [x |-> 0, y |-> 0, width |-> 0, height |-> 0]

----------------------------------------------------------------------------
(* Display enumeration.                                                    *)

(* dmdo_to_orien[] and the range test of __display_info_update() *)
dmdo_to_orien(dmDisplayOrientation) ==
    IF dmDisplayOrientation < NUM_MONITOR_ORIENTS
    THEN dmDisplayOrientation
    ELSE ORIENT_UNKNOWN

(* the slot update without the test of the mirroring-driver flag *)
display_info_update_slot_no_mirror_test(m, dev, mode) ==
    IF ~dev.active
    THEN [m EXCEPT !.active = 0, !.info = ZeroInfo]
    ELSE [m EXCEPT
            !.active = 1,
            !.info = [x |-> mode.x, y |-> mode.y,
                      width |-> mode.width, height |-> mode.height,
                      orientation |-> dmdo_to_orien(mode.orientation),
                      is_primary |->
                          IF mode.x = 0 /\ mode.y = 0 THEN 1 ELSE 0]]

(* __display_info_update(idx, dev, mode) on the slot m = monitors[idx],    *)
(* for idx inside the array.  dev = [active, mirror] are the two           *)
(* StateFlags bits the code reads.                                         *)
display_info_update_slot(m, dev, mode) ==
    LET act == IF dev.mirror THEN 0 ELSE IF dev.active THEN 1 ELSE 0
    IN  IF act = 0
        THEN [m EXCEPT !.active = 0, !.info = ZeroInfo]
        ELSE [m EXCEPT
                !.active = 1,
                !.info = [x |-> mode.x, y |-> mode.y,
                          width |-> mode.width, height |-> mode.height,
                          orientation |-> dmdo_to_orien(mode.orientation),
                          is_primary |->
                              IF mode.x = 0 /\ mode.y = 0 THEN 1 ELSE 0]]

----------------------------------------------------------------------------
(* Geometry and layout.                                                    *)

(* the cover test with the end points excluded *)
is_axis_cover_point_exclusive(l, p) ==
    IF l.s < l.e
    THEN l.s < p /\ p < l.e
    ELSE l.e < p /\ p < l.s

is_axis_cover_point(l, p) ==
    IF l.s < l.e
    THEN l.s <= p /\ p <= l.e
    ELSE l.e <= p /\ p <= l.s

(* The overlap delta of one axis: ds/dlen the desktop's start and length,  *)
(* as/alen the appended rectangle's.                                       *)
axis_delta(ds, dlen, as, alen) ==
    LET dl == [s |-> ds, e |-> ds + dlen]
        al == [s |-> as, e |-> as + alen]
    IN  IF is_axis_cover_point(al, ds)
        THEN IF is_axis_cover_point(al, ds + dlen)
             THEN dlen
             ELSE Abs(al.e - ds)
        ELSE IF is_axis_cover_point(dl, as)
             THEN IF is_axis_cover_point(dl, as + alen)
                  THEN alen
                  ELSE Abs(dl.e - as)
             ELSE 0

(* the union that keeps the desktop's origin instead of taking the minimum *)
virtual_desktop_size_compute_keep_origin(desk, append) ==
    IF desk.width = 0 /\ desk.height = 0
    THEN [x |-> append.x, y |-> append.y,
          width |-> append.width, height |-> append.height]
    ELSE [x |-> desk.x,
          y |-> desk.y,
          width |-> append.width + desk.width
                      - axis_delta(desk.x, desk.width, append.x, append.width),
          height |-> append.height + desk.height
                      - axis_delta(desk.y, desk.height, append.y, append.height)]

virtual_desktop_size_compute(desk, append) ==
    IF desk.width = 0 /\ desk.height = 0
    THEN [x |-> append.x, y |-> append.y,
          width |-> append.width, height |-> append.height]
    ELSE [x |-> IF append.x < desk.x THEN append.x ELSE desk.x,
          y |-> IF append.y < desk.y THEN append.y ELSE desk.y,
          width |-> append.width + desk.width
                      - axis_delta(desk.x, desk.width, append.x, append.width),
          height |-> append.height + desk.height
                      - axis_delta(desk.y, desk.height, append.y, append.height)]

MonRect(m) ==
    [x |-> m.info.x, y |-> m.info.y,
     width |-> m.info.width, height |-> m.info.height]

RECURSIVE vd_fold(_, _, _)
vd_fold(desk, mons, i) ==
    IF i >= MONITOR_COUNT_MAX
    THEN desk
    ELSE vd_fold(IF mons[i].active = 1
                 THEN virtual_desktop_size_compute(desk, MonRect(mons[i]))
                 ELSE desk,
                 mons, i + 1)

virtual_desktop_update(virtdesk, mons) == vd_fold(virtdesk, mons, 0)

(* the subtraction taken the other way round *)
reposition_pos_swapped(m, virtdesk) ==
    [x |-> virtdesk.x - m.info.x, y |-> virtdesk.y - m.info.y]

(* The position virtual_desktop_position_reposition() gives one monitor. *)
reposition_pos(m, virtdesk) ==
    [x |-> m.info.x - virtdesk.x, y |-> m.info.y - virtdesk.y]

(* the rebasing that leaves the origin of the desktop as the fold set it *)
virtual_desktop_position_reposition_keep_origin(virtdesk, mons) ==
    IF virtdesk.height = 0 \/ virtdesk.width = 0
    THEN [err |-> "EINVAL", mons |-> mons, desk |-> virtdesk]
    ELSE [err |-> "OK",
          mons |-> [i \in MonIdx |->
                      IF mons[i].active = 1
                      THEN [mons[i] EXCEPT
                              !.virt_pos = reposition_pos(mons[i], virtdesk)]
                      ELSE mons[i]],
          desk |-> virtdesk]

(* virtual_desktop_position_reposition(): [err, mons, desk]. *)
virtual_desktop_position_reposition(virtdesk, mons) ==
    IF virtdesk.height = 0 \/ virtdesk.width = 0
    THEN [err |-> "EINVAL", mons |-> mons, desk |-> virtdesk]
    ELSE [err |-> "OK",
          mons |-> [i \in MonIdx |->
                      IF mons[i].active = 1
                      THEN [mons[i] EXCEPT
                              !.virt_pos = reposition_pos(mons[i], virtdesk)]
                      ELSE mons[i]],
          desk |-> [virtdesk EXCEPT !.x = 0, !.y = 0]]

----------------------------------------------------------------------------
(* The image library, as far as the compositor depends on it: an image is  *)
(* [slot, rot, width, height, at, copies]; slot is the files[] entry it    *)
(* was read from, rot the rotation applied, at the place of the top left   *)
(* corner of the picture read inside the image, copies the offsets at      *)
(* which TILE pasted the source.  ok is the library's own verdict          *)
(* (allocation, I/O).                                                      *)

(* the null pointers of the two kinds of wand *)
NullImg ==
    [slot |-> -1, rot |-> 0, width |-> 0, height |-> 0,
     at |-> [x |-> 0, y |-> 0], copies |-> <<>>]
NullCanvas == [width |-> -1, height |-> -1, tiles |-> <<>>]

Img(slot, w, h) ==
    [slot |-> slot, rot |-> 0, width |-> w, height |-> h,
     at |-> [x |-> 0, y |-> 0], copies |-> <<>>]

(* MagickScaleImage(w, columns, rows) *)
MagickScaleImage(img, columns, rows, ok) ==
    IF ok /\ columns > 0 /\ rows > 0
    THEN [pass |-> TRUE, img |-> [img EXCEPT !.width = columns, !.height = rows]]
    ELSE [pass |-> FALSE, img |-> img]

(* MagickExtentImage(w, width, height, x, y): a background-filled image of *)
(* the given size with the former image laid on it at the offset (x, y)    *)
MagickExtentImage(img, width, height, x, y, ok) ==
    IF ok
    THEN [pass |-> TRUE,
          img |-> [img EXCEPT !.width = width, !.height = height,
                              !.at = [x |-> @.x + x, y |-> @.y + y]]]
    ELSE [pass |-> FALSE, img |-> img]

Min(a, b) == IF a < b THEN a ELSE b

(* MagickCropImage(w, width, height, x, y): the part of the region that    *)
(* lies inside the image; it fails when nothing does.                      *)
MagickCropImage(img, width, height, x, y, ok) ==
    IF ok /\ width > 0 /\ height > 0 /\ x >= 0 /\ y >= 0
          /\ x < img.width /\ y < img.height
    THEN [pass |-> TRUE,
          img |-> [img EXCEPT !.width = Min(width, img.width - x),
                              !.height = Min(height, img.height - y),
                              !.at = [x |-> @.x - x, y |-> @.y - y]]]
    ELSE [pass |-> FALSE, img |-> img]

(* MagickRotateImage(w, bg, degrees) for a multiple of 90 degrees *)
MagickRotateImage(img, degrees, ok) ==
    IF ~ok
    THEN [pass |-> FALSE, img |-> img]
    ELSE [pass |-> TRUE,
          img |-> IF degrees \in {90, 270}
                  THEN [img EXCEPT !.rot = degrees,
                                   !.width = img.height, !.height = img.width]
                  ELSE [img EXCEPT !.rot = degrees]]

----------------------------------------------------------------------------
(* Style engine.  Each style returns [err, img, live]: img is what the     *)
(* wand holds when the function returns, live the number of wands the      *)
(* function has created and not destroyed.  The scale factor of the two    *)
(* fit styles is a double in the source; the model divides exactly.        *)

Status(r) ==
    [err |-> IF r.pass THEN "OK" ELSE "EFAULT", img |-> r.img, live |-> 0]

wallpaper_style_fit_apply(m, w, env) ==
    LET mon_width == m.info.width
        mon_height == m.info.height
        FIT_WIDTH == w.width * mon_height > mon_width * w.height
        sc == IF FIT_WIDTH
              THEN MagickScaleImage(w, mon_width,
                                    (w.height * mon_width) \div w.width, env.op1)
              ELSE MagickScaleImage(w, (w.width * mon_height) \div w.height,
                                    mon_height, env.op1)
    IN  IF ~sc.pass
        THEN Status(sc)
        ELSE IF FIT_WIDTH
             THEN IF sc.img.height < mon_height
                  THEN Status(MagickExtentImage(sc.img, mon_width, mon_height,
                                 0, (mon_height - sc.img.height) \div 2, env.op2))
                  ELSE Status(sc)
             ELSE IF sc.img.width < mon_width
                  THEN Status(MagickExtentImage(sc.img, mon_width, mon_height,
                                 (mon_width - sc.img.width) \div 2, 0, env.op2))
                  ELSE Status(sc)

wallpaper_style_fit_edge_cut_apply(m, w, env) ==
    LET mon_width == m.info.width
        mon_height == m.info.height
        FIT_HEIGHT == w.width * mon_height > mon_width * w.height
        sc == IF FIT_HEIGHT
              THEN MagickScaleImage(w, (w.width * mon_height) \div w.height,
                                    mon_height, env.op1)
              ELSE MagickScaleImage(w, mon_width,
                                    (w.height * mon_width) \div w.width, env.op1)
    IN  IF ~sc.pass
        THEN Status(sc)
        ELSE IF FIT_HEIGHT
             THEN Status(MagickCropImage(sc.img, mon_width, mon_height,
                                         (sc.img.width - mon_width) \div 2, 0, env.op2))
             ELSE Status(MagickCropImage(sc.img, mon_width, mon_height,
                                         0, (sc.img.height - mon_height) \div 2, env.op2))

wallpaper_style_stretch_apply(m, w, env) ==
    Status(MagickScaleImage(w, m.info.width, m.info.height, env.op1))

(* The while loop of wallpaper_style_tile_apply(): the offsets at which    *)
(* the source is pasted, from the loop state (x, y, filled_height).        *)
RECURSIVE tile_loop(_, _, _, _, _, _, _)
tile_loop(x, y, filled_height, pic_width, pic_height, mon_width, mon_height) ==
    IF ~(filled_height < mon_height)
    THEN <<>>
    ELSE LET nx == x + pic_width
         IN  <<  <<x, y>>  >> \o
             (IF nx >= mon_width
              THEN tile_loop(0, y + pic_height, filled_height + pic_height,
                             pic_width, pic_height, mon_width, mon_height)
              ELSE tile_loop(nx, y, filled_height,
                             pic_width, pic_height, mon_width, mon_height))

(* the tiling that steps by the source's height along x and by its width   *)
(* along y                                                                 *)
wallpaper_style_tile_apply_swapped_axes(m, w, env) ==
    LET mon_width == m.info.width
        mon_height == m.info.height
    IN  IF w.width >= mon_width /\ w.height >= mon_height
        THEN Status(MagickCropImage(w, mon_width, mon_height, 0, 0, env.op1))
        ELSE LET ex == MagickExtentImage(w, mon_width, mon_height,
                                         mon_width, mon_height, env.op1)
             IN  IF ~ex.pass
                 THEN [err |-> "EFAULT", img |-> ex.img, live |-> 1]
                 ELSE IF ~env.op2
                      THEN [err |-> "EFAULT", img |-> ex.img, live |-> 0]
                      ELSE [err |-> "OK", live |-> 0,
                            img |-> [ex.img EXCEPT !.copies =
                                       tile_loop(0, 0, 0, w.height, w.width,
                                                 mon_width, mon_height)]]

wallpaper_style_tile_apply(m, w, env) ==
    LET mon_width == m.info.width
        mon_height == m.info.height
    IN  IF w.width >= mon_width /\ w.height >= mon_height
        THEN Status(MagickCropImage(w, mon_width, mon_height, 0, 0, env.op1))
        ELSE LET ex == MagickExtentImage(w, mon_width, mon_height,
                                         mon_width, mon_height, env.op1)
             IN  IF ~ex.pass
                 THEN [err |-> "EFAULT", img |-> ex.img, live |-> 1]
                 ELSE IF ~env.op2
                      THEN [err |-> "EFAULT", img |-> ex.img, live |-> 0]
                      ELSE [err |-> "OK", live |-> 0,
                            img |-> [ex.img EXCEPT !.copies =
                                       tile_loop(0, 0, 0, w.width, w.height,
                                                 mon_width, mon_height)]]

wallpaper_style_center_apply(m, w, env) ==
    LET mon_width == m.info.width
        mon_height == m.info.height
        pic_width == w.width
        pic_height == w.height
    IN  IF mon_width = pic_width /\ mon_height = pic_width
        THEN [err |-> "OK", img |-> w, live |-> 0]
        ELSE IF pic_width > mon_width /\ pic_height > mon_height
             THEN Status(MagickCropImage(w, mon_width, mon_height,
                            (pic_width \div 2) - (mon_width \div 2),
                            (pic_height \div 2) - (mon_height \div 2), env.op1))
             ELSE Status(MagickExtentImage(w, mon_width, mon_height,
                            (mon_width \div 2) - (pic_width \div 2),
                            (mon_height \div 2) - (pic_height \div 2), env.op1))

(* The switch of wallpaper_load() *)
wallpaper_style_apply(m, w, env) ==
    CASE m.wallpaper.style = "fit_no_cut" -> wallpaper_style_fit_apply(m, w, env)
      [] m.wallpaper.style = "fit_edge_cut" -> wallpaper_style_fit_edge_cut_apply(m, w, env)
      [] m.wallpaper.style = "stretch" -> wallpaper_style_stretch_apply(m, w, env)
      [] m.wallpaper.style = "tile" -> wallpaper_style_tile_apply(m, w, env)
      [] m.wallpaper.style = "center" -> wallpaper_style_center_apply(m, w, env)

----------------------------------------------------------------------------
(* Orientation resolver and per-monitor renderer.                          *)

(* the scan taken before the opposite orientation *)
wallpaper_auto_rotate_scan_first(m) ==
    LET flip_orient == ((m.info.orientation * 90 + 180) % 360) \div 90
        set == {i \in Orients : m.wallpaper.files[i] # NULL}
    IN  IF flip_orient >= NUM_MONITOR_ORIENTS
        THEN -1
        ELSE IF set # {}
             THEN CHOOSE i \in set : \A j \in set : i <= j
             ELSE -1

(* A files[] entry is NULL (key absent), "" (empty string) or a path. *)
wallpaper_auto_rotate(m) ==
    LET flip_orient == ((m.info.orientation * 90 + 180) % 360) \div 90
        set == {i \in Orients : m.wallpaper.files[i] # NULL}
    IN  IF flip_orient >= NUM_MONITOR_ORIENTS
        THEN -1
        ELSE IF m.wallpaper.files[flip_orient] # NULL
             THEN flip_orient
             ELSE IF set # {}
                  THEN CHOOSE i \in set : \A j \in set : i <= j
                  ELSE -1

(* 2^32 mod d, and the remainder by d of the uint32 that holds the value   *)
(* v (|v| < 2^31): the rotation is computed in unsigned arithmetic.        *)
Pow32Mod(d) == ((65536 % d) * (65536 % d)) % d
U32Rem(v, d) == IF v >= 0 THEN v % d ELSE (Pow32Mod(d) + (v % d)) % d

(* the two orientations subtracted the other way round *)
wallpaper_rotation_swapped(alter_orient, orient) ==
    (360 - (orient * 90 - alter_orient * 90)) % 360

(* the difference taken of the orientation indices, not of the angles *)
wallpaper_rotation_index_units(alter_orient, orient) ==
    U32Rem(360 - (alter_orient - orient), 360)

(* the rotation without the final remainder *)
wallpaper_rotation_no_rem(alter_orient, orient) ==
    360 - (alter_orient * 90 - orient * 90)

(* int rotation = (360 - (alter_orient * 90 - orient * 90)) % 360 *)
wallpaper_rotation(alter_orient, orient) ==
    U32Rem(360 - (alter_orient * 90 - orient * 90), 360)

(* What wallpaper_load() settles before it reads the image: the files[]    *)
(* slot it takes wallpaper_path from, the path, and the rotation it will   *)
(* apply (0: no MagickRotateImage call).  slot = -1 when it returns before *)
(* reading.                                                                *)
NoSource == [slot |-> -1, path |-> NULL, rotation |-> 0]

wallpaper_source(m) ==
    LET orient == m.info.orientation
        own == IF orient < NUM_MONITOR_ORIENTS
               THEN m.wallpaper.files[orient] ELSE NULL
        alter_orient == wallpaper_auto_rotate(m)
    IN  IF m.active = 0 \/ orient >= NUM_MONITOR_ORIENTS
        THEN NoSource
        ELSE IF own # NULL /\ own # ""
             THEN [slot |-> orient, path |-> own, rotation |-> 0]
             ELSE IF m.wallpaper.auto_rotate = 0 \/ alter_orient < 0
                  THEN NoSource
                  ELSE [slot |-> alter_orient,
                        path |-> m.wallpaper.files[alter_orient],
                        rotation |-> wallpaper_rotation(alter_orient, orient)]

(* wallpaper_load(m, out): [err, out, live]; out = NullImg when *out is    *)
(* not written; live is the number of wands (image and pixel) the call has *)
(* created and neither destroyed nor stored in *out.  files is the disk,   *)
(* env the library's verdicts for this call.                               *)
wallpaper_load(m, files, env) ==
    LET orient == m.info.orientation
        own == IF orient < NUM_MONITOR_ORIENTS
               THEN m.wallpaper.files[orient] ELSE NULL
        alter_orient == IF own = NULL \/ own = ""
                        THEN wallpaper_auto_rotate(m) ELSE -1
        slot == IF alter_orient >= 0 THEN alter_orient ELSE orient
        wallpaper_path == m.wallpaper.files[slot]
        rd == Img(slot, files[wallpaper_path][1], files[wallpaper_path][2])
        rot == IF alter_orient >= 0
               THEN MagickRotateImage(rd, wallpaper_rotation(alter_orient, orient),
                                      env.rotate)
               ELSE [pass |-> TRUE, img |-> rd]
        st == wallpaper_style_apply(m, rot.img, env)
    IN  IF m.active = 0
             THEN [err |-> "ENODATA", out |-> NullImg, live |-> 0]
        ELSE IF orient >= NUM_MONITOR_ORIENTS
             THEN [err |-> "EINVAL", out |-> NullImg, live |-> 0]
        ELSE IF (own = NULL \/ own = "") /\ m.wallpaper.auto_rotate = 0
             THEN [err |-> "ENODATA", out |-> NullImg, live |-> 1]
        ELSE IF (own = NULL \/ own = "") /\ alter_orient < 0
             THEN [err |-> "ENODATA", out |-> NullImg, live |-> 1]
        ELSE IF ~(env.read /\ wallpaper_path \in DOMAIN files)
             THEN [err |-> "EIO", out |-> NullImg, live |-> 0]
        ELSE IF ~env.setbg
             THEN [err |-> "EFAULT", out |-> NullImg, live |-> 0]
        ELSE IF ~rot.pass
             THEN [err |-> "EFAULT", out |-> NullImg, live |-> 2]
        ELSE [err |-> st.err, out |-> st.img, live |-> st.live]

----------------------------------------------------------------------------
(* What the platform and the configuration file supply.                    *)

(* DEVMODE values EnumDisplaySettings() may report: position, size and     *)
(* dmDisplayOrientation (4 is a value outside dmdo_to_orien[]).            *)
Mode(x, y, w, h, o) ==
    [x |-> x, y |-> y, width |-> w, height |-> h, orientation |-> o]

(* the modes of the runs that exercise the renderer and its failures *)
Modes ==
    { Mode(0, 0, 2, 2, 0), Mode(2, 0, 2, 2, 0),
      Mode(2, 0, 2, 2, 1), Mode(2, 0, 2, 2, 4) }

(* the modes of the runs that exercise the layout: the primary display, a   *)
(* display on its left, and a taller one on its right that starts higher   *)
LayoutModes ==
    { Mode(0, 0, 2, 2, 0), Mode(-2, 0, 2, 2, 0), Mode(2, -2, 2, 3, 0) }

(* the primary display alone *)
LoopModes == { Mode(0, 0, 2, 2, 0) }

(* the primary display and a taller one on its right that starts higher *)
PairModes == { Mode(0, 0, 2, 2, 0), Mode(2, -2, 2, 3, 0) }

ZeroMode == Mode(0, 0, 0, 0, 0)

NoFiles == [o \in Orients |-> NULL]

(* The "wallpaper" object of the i-th entry of the configuration file. *)
Profile(i) ==
    CASE i % 3 = 0 -> [auto_rotate |-> 1, style |-> "fit_no_cut",
                       files |-> [NoFiles EXCEPT ![ORIENT_0] = "A"]]
      [] i % 3 = 1 -> [auto_rotate |-> 0, style |-> "tile",
                       files |-> [NoFiles EXCEPT ![ORIENT_0] = "B",
                                                 ![ORIENT_90] = ""]]
      [] i % 3 = 2 -> [auto_rotate |-> 1, style |-> "center",
                       files |-> [NoFiles EXCEPT ![ORIENT_90] = "C"]]

Disk == [p \in {"A", "B", "C"} |->
            CASE p = "A" -> <<4, 2>> [] p = "B" -> <<1, 1>> [] p = "C" -> <<2, 4>>]

BOOL == {TRUE, FALSE}

(* The library call of one wallpaper_load() that fails, if any: the        *)
(* function returns at the first failure, so one name says it all.         *)
LoadFaults == {"none", "read", "setbg", "rotate", "op1", "op2"}
EnvOf(fault) ==
    [read |-> fault # "read", setbg |-> fault # "setbg",
     rotate |-> fault # "rotate", op1 |-> fault # "op1", op2 |-> fault # "op2"]

Faults(all) == IF platform.faults THEN all ELSE {"none"}

(* What started a wallpaper_update(): the call of wmain(), or a message,   *)
(* of which posted is the number of the cycle that was running or had last *)
(* finished when it arrived and busy says which of the two.                *)
AtStartup == [posted |-> 0, busy |-> FALSE]

NewCycle ==
    [reported |-> {}, inactive |-> {}, mirror |-> {}, layout_err |-> "none",
     load_err |-> [i \in MonIdx |-> "none"],
     source |-> [i \in MonIdx |-> NoSource],
     canvas_stage |-> "none", written |-> NullCanvas, set_called |-> FALSE,
     live |-> 0, trigger |-> AtStartup]

NoWallpapers == [i \in MonIdx |-> NullImg]

(* MSG msg of main_thread_wnd_process() before the first GetMessage() *)
NoMsg == [message |-> "none", posted |-> 0, busy |-> FALSE]

(* The process when wmain() is entered, and when it has loaded the         *)
(* configuration, initialized the image library and created the notifier   *)
(* window.                                                                 *)
AtEntry ==
    [err |-> 0, usrcfg |-> FALSE, wnd |-> FALSE,
     magick |-> [inits |-> 0, destroys |-> 0], msg |-> NoMsg]
Started ==
    [err |-> 0, usrcfg |-> TRUE, wnd |-> TRUE,
     magick |-> [inits |-> 1, destroys |-> 0], msg |-> NoMsg]

----------------------------------------------------------------------------
(* The state after wmain() has loaded the configuration and entered its    *)
(* first wallpaper_update().                                               *)
InitProgram ==
    /\ monitors = [i \in MonIdx |->
                     [active |-> 0, info |-> ZeroInfo,
                      virt_pos |-> [x |-> 0, y |-> 0],
                      wallpaper |-> Profile(i)]]
    /\ virtual_desktop = ZeroRect
    /\ pc = "enum"
    /\ idx = 0
    /\ wallpapers = NoWallpapers
    /\ canvas = NullCanvas
    /\ gen_err = "OK"
    /\ out_file = 0
    /\ installed = 0
    /\ cycle = 1
    /\ cyc = NewCycle
    /\ queue = <<>>
    /\ proc = Started

Init ==
    /\ InitProgram
    /\ platform = [modes |-> Modes, disk |-> Disk, faults |-> TRUE]

(* the same program on a platform with more display layouts and an image   *)
(* library that does not fail                                              *)
InitLayout ==
    /\ InitProgram
    /\ platform = [modes |-> LayoutModes, disk |-> Disk, faults |-> FALSE]

----------------------------------------------------------------------------
(* display_info_update(): one action per way an iteration of its loop      *)
(* can go.  The platform reports at most MONITOR_COUNT_MAX + 1 devices.    *)

(* __display_info_update(i, &dev, &mode) as called from the loop *)
EnumUpdate(dev, mode) ==
    /\ monitors' = IF idx < MONITOR_COUNT_MAX
                   THEN [monitors EXCEPT
                           ![idx] = display_info_update_slot(monitors[idx], dev, mode)]
                   ELSE monitors
    /\ cyc' = IF idx < MONITOR_COUNT_MAX
              THEN [cyc EXCEPT
                      !.reported = @ \cup {idx},
                      !.mirror = IF dev.mirror
                                 THEN @ \cup {idx} ELSE @,
                      !.inactive = IF ~dev.mirror /\ ~dev.active
                                   THEN @ \cup {idx} ELSE @]
              ELSE cyc
    /\ idx' = idx + 1
    /\ UNCHANGED <<virtual_desktop, pc, wallpapers, canvas, gen_err, platform,
                   proc, queue, out_file, installed, cycle>>

(* EnumDisplayDevices() returns 0: the loop ends *)
EnumEnd ==
    /\ pc = "enum"
    /\ pc' = "vd_update"
    /\ idx' = 0
    /\ UNCHANGED <<monitors, virtual_desktop, wallpapers, canvas, gen_err,
                   platform, proc, queue, out_file, installed, cycle, cyc>>

(* the device is not active *)
EnumInactive ==
    /\ pc = "enum" /\ idx <= MONITOR_COUNT_MAX
    /\ EnumUpdate([active |-> FALSE, mirror |-> FALSE], ZeroMode)

(* the device is a mirroring driver, flagged active *)
EnumMirror ==
    /\ pc = "enum" /\ idx <= MONITOR_COUNT_MAX
    /\ EnumUpdate([active |-> TRUE, mirror |-> TRUE], ZeroMode)

(* EnumDisplaySettings() fails: continue *)
EnumSettingsFailed ==
    /\ pc = "enum" /\ idx <= MONITOR_COUNT_MAX
    /\ idx' = idx + 1
    /\ UNCHANGED <<monitors, virtual_desktop, pc, wallpapers, canvas, gen_err,
                   platform, proc, queue, out_file, installed, cycle, cyc>>

(* the device is active and its settings are read *)
EnumActive ==
    /\ pc = "enum" /\ idx <= MONITOR_COUNT_MAX
    /\ \E mode \in platform.modes :
          EnumUpdate([active |-> TRUE, mirror |-> FALSE], mode)

----------------------------------------------------------------------------
(* Layout: the two calls of wallpaper_update() after the enumeration.      *)

VirtualDesktopUpdate ==
    /\ pc = "vd_update"
    /\ virtual_desktop' = virtual_desktop_update(virtual_desktop, monitors)
    /\ pc' = "vd_reposition"
    /\ UNCHANGED <<monitors, idx, wallpapers, canvas, gen_err, platform, proc,
                   queue, out_file, installed, cycle, cyc>>

(* wallpaper_update() ignores the value returned *)
VirtualDesktopPositionReposition ==
    /\ pc = "vd_reposition"
    /\ LET r == virtual_desktop_position_reposition(virtual_desktop, monitors)
       IN  /\ monitors' = r.mons
           /\ virtual_desktop' = r.desk
           /\ cyc' = [cyc EXCEPT !.layout_err = r.err]
    /\ pc' = "load"
    /\ idx' = 0
    /\ UNCHANGED <<wallpapers, canvas, gen_err, platform, proc, queue, out_file,
                   installed, cycle>>

----------------------------------------------------------------------------
(* wallpaper_generate().                                                   *)

AfterLoad == IF idx + 1 >= MONITOR_COUNT_MAX THEN "canvas" ELSE "load"

(* first loop, a slot that is not active: continue *)
GenerateSkip ==
    /\ pc = "load"
    /\ monitors[idx].active = 0
    /\ pc' = AfterLoad
    /\ idx' = idx + 1
    /\ UNCHANGED <<monitors, virtual_desktop, wallpapers, canvas, gen_err,
                   platform, proc, queue, out_file, installed, cycle, cyc>>

(* first loop, an active slot: err = wallpaper_load(m, &wallpapers[i]) *)
GenerateLoad ==
    /\ pc = "load"
    /\ monitors[idx].active = 1
    /\ \E fault \in Faults(LoadFaults) :
          LET r == wallpaper_load(monitors[idx], platform.disk, EnvOf(fault))
          IN  /\ gen_err' = r.err
              /\ wallpapers' = IF r.out # NullImg
                               THEN [wallpapers EXCEPT ![idx] = r.out]
                               ELSE wallpapers
              /\ cyc' = [cyc EXCEPT !.load_err[idx] = r.err,
                                    !.source[idx] = wallpaper_source(monitors[idx]),
                                    !.live = @ + r.live]
    /\ pc' = AfterLoad
    /\ idx' = idx + 1
    /\ UNCHANGED <<monitors, virtual_desktop, canvas, platform, proc, queue,
                   out_file, installed, cycle>>

(* The tiles the second loop composites, in its order: the active slots    *)
(* that hold a wand, up to and without the first one whose composite       *)
(* fails (bad = -1: none fails)                                            *)
RECURSIVE composite_loop(_, _, _, _)
composite_loop(mons, wps, bad, i) ==
    IF i >= MONITOR_COUNT_MAX
    THEN [pass |-> TRUE, tiles |-> <<>>]
    ELSE IF mons[i].active = 0 \/ wps[i] = NullImg
         THEN composite_loop(mons, wps, bad, i + 1)
         ELSE IF i = bad
              THEN [pass |-> FALSE, tiles |-> <<>>]
              ELSE LET rest == composite_loop(mons, wps, bad, i + 1)
                   IN  [pass |-> rest.pass,
                        tiles |-> << [mon |-> i,
                                      x |-> mons[i].virt_pos.x,
                                      y |-> mons[i].virt_pos.y,
                                      img |-> wps[i]] >> \o rest.tiles]

(* what wallpaper_update() does with the value wallpaper_generate() returns *)
AfterGenerate(err) == IF err # "OK" THEN "idle" ELSE "set"

(* The library call of the canvas part that fails, if any: "XC:" read,     *)
(* extent, or the composite of one slot's tile.                            *)
CanvasFaults ==
    IF ~platform.faults
    THEN { <<"none", -1>> }
    ELSE { <<"none", -1>>, <<"xc", -1>>, <<"extent", -1>> }
           \cup { <<"composite", i>> : i \in
                    {j \in MonIdx : monitors[j].active = 1
                                      /\ wallpapers[j] # NullImg} }

(* the canvas step with the second loop run from the last slot down *)
GenerateCanvasDescending ==
    /\ pc = "canvas"
    /\ \E fault \in CanvasFaults :
          LET comp == composite_loop(monitors, wallpapers, fault[2], 0)
              stage == IF fault[1] = "xc" THEN "xc_failed"
                       ELSE IF fault[1] = "extent" THEN "extent_failed"
                       ELSE IF ~comp.pass THEN "composite_failed"
                       ELSE "composed"
          IN  /\ cyc' = [cyc EXCEPT !.canvas_stage = stage]
              /\ IF stage = "composed"
                 THEN /\ canvas' = [width |-> virtual_desktop.width,
                                    height |-> virtual_desktop.height,
                                    tiles |-> [k \in DOMAIN comp.tiles |->
                                       comp.tiles[Len(comp.tiles) + 1 - k]]]
                      /\ pc' = "write"
                      /\ UNCHANGED wallpapers
                 ELSE /\ canvas' = NullCanvas
                      /\ wallpapers' = NoWallpapers
                      /\ pc' = AfterGenerate(gen_err)
    /\ UNCHANGED <<monitors, virtual_desktop, idx, gen_err, platform, proc,
                   queue, out_file, installed, cycle>>

(* canvas creation, extent and the second loop; on a failure the code      *)
(* jumps to out_free_canvas and returns err as the first loop left it      *)
GenerateCanvas ==
    /\ pc = "canvas"
    /\ \E fault \in CanvasFaults :
          LET comp == composite_loop(monitors, wallpapers, fault[2], 0)
              stage == IF fault[1] = "xc" THEN "xc_failed"
                       ELSE IF fault[1] = "extent" THEN "extent_failed"
                       ELSE IF ~comp.pass THEN "composite_failed"
                       ELSE "composed"
          IN  /\ cyc' = [cyc EXCEPT !.canvas_stage = stage]
              /\ IF stage = "composed"
                 THEN /\ canvas' = [width |-> virtual_desktop.width,
                                    height |-> virtual_desktop.height,
                                    tiles |-> comp.tiles]
                      /\ pc' = "write"
                      /\ UNCHANGED wallpapers
                 ELSE /\ canvas' = NullCanvas
                      /\ wallpapers' = NoWallpapers
                      /\ pc' = AfterGenerate(gen_err)
    /\ UNCHANGED <<monitors, virtual_desktop, idx, gen_err, platform, proc,
                   queue, out_file, installed, cycle>>

(* MagickWriteImage(canvas, out_path), then the cleanup and the return *)
GenerateWrite ==
    /\ pc = "write"
    /\ \E ok \in {f = "none" : f \in Faults({"none", "write"})} :
          /\ gen_err' = IF ok THEN gen_err ELSE "EIO"
          /\ out_file' = IF ok THEN cycle ELSE out_file
          /\ cyc' = IF ok THEN [cyc EXCEPT !.written = canvas] ELSE cyc
          /\ pc' = AfterGenerate(gen_err')
    /\ canvas' = NullCanvas
    /\ wallpapers' = NoWallpapers
    /\ UNCHANGED <<monitors, virtual_desktop, idx, platform, proc, queue,
                   installed, cycle>>

(* desktop_wallpaper_set(out_path_w) *)
DesktopWallpaperSet ==
    /\ pc = "set"
    /\ \E ok \in {f = "none" : f \in Faults({"none", "set"})} :
          installed' = IF ok THEN out_file ELSE installed
    /\ cyc' = [cyc EXCEPT !.set_called = TRUE]
    /\ pc' = "idle"
    /\ UNCHANGED <<monitors, virtual_desktop, idx, wallpapers, canvas, gen_err,
                   platform, proc, queue, out_file, cycle>>

(* notify_wnd_proc() calls wallpaper_update() for the message trig *)
StartUpdate(trig) ==
    /\ cycle' = cycle + 1
    /\ pc' = "enum"
    /\ idx' = 0
    /\ gen_err' = "OK"
    /\ cyc' = [NewCycle EXCEPT !.trigger = trig]
    /\ UNCHANGED <<monitors, virtual_desktop, wallpapers, canvas, platform,
                   out_file, installed>>

(* The thread waits in GetMessage(); a WM_DISPLAYCHANGE arrives and is     *)
(* dispatched to notify_wnd_proc(): the next wallpaper_update() starts     *)
DisplayChange ==
    /\ pc = "idle"
    /\ queue = <<>>
    /\ cycle < MaxCycles
    /\ StartUpdate([posted |-> cycle, busy |-> FALSE])
    /\ UNCHANGED <<queue, proc>>

Next ==
    \/ EnumEnd
    \/ EnumInactive
    \/ EnumMirror
    \/ EnumSettingsFailed
    \/ EnumActive
    \/ VirtualDesktopUpdate
    \/ VirtualDesktopPositionReposition
    \/ GenerateSkip
    \/ GenerateLoad
    \/ GenerateCanvas
    \/ GenerateWrite
    \/ DesktopWallpaperSet
    \/ DisplayChange

Spec == Init /\ [][Next]_vars

SpecLayout == InitLayout /\ [][Next]_vars

(* the same program on a platform with two displays side by side, of       *)
(* different heights                                                       *)
InitPair ==
    /\ InitProgram
    /\ platform = [modes |-> PairModes, disk |-> Disk, faults |-> FALSE]

SpecPair == InitPair /\ [][Next]_vars

----------------------------------------------------------------------------
(* The message loop of main_thread_wnd_process() with the messages of the  *)
(* thread's queue made explicit: the system queues messages at any time,   *)
(* whatever the thread is doing, and the thread takes one only when it     *)
(* calls GetMessage(), that is when no wallpaper_update() is running.      *)

Messages == {"WM_DISPLAYCHANGE", "WM_OTHER"}

MaxLoopCycles == MaxCycles + 1

(* the system queues a message for the notify window *)
PostMessage ==
    /\ proc.wnd
    /\ Len(queue) < MaxQueue
    /\ \E msg \in Messages :
          queue' = Append(queue,
                          IF msg = "WM_DISPLAYCHANGE"
                          THEN [message |-> msg, posted |-> cycle,
                                busy |-> pc # "idle"]
                          ELSE [message |-> msg, posted |-> 0, busy |-> FALSE])
    /\ UNCHANGED <<monitors, virtual_desktop, pc, idx, wallpapers, canvas,
                   gen_err, platform, proc, out_file, installed, cycle, cyc>>

(* notify_wnd_proc() for the message m *)
notify_wnd_proc(m) ==
    IF m.message = "WM_DISPLAYCHANGE"
    THEN /\ cycle < MaxLoopCycles
         /\ StartUpdate([posted |-> m.posted, busy |-> m.busy])
    ELSE UNCHANGED <<monitors, virtual_desktop, pc, idx, wallpapers, canvas,
                     gen_err, platform, out_file, installed, cycle, cyc>>

(* the body of the loop for the message msg: break on WM_QUIT, else        *)
(* DispatchMessage() hands it to notify_wnd_proc()                         *)
wnd_process_msg(msg) ==
    IF msg.message = "WM_QUIT"
    THEN /\ pc' = "destroy_wnd"
         /\ UNCHANGED <<monitors, virtual_desktop, idx, wallpapers, canvas,
                        gen_err, platform, out_file, installed, cycle, cyc>>
    ELSE notify_wnd_proc(msg)

(* an iteration taken while a wallpaper_update() may still be running *)
MainThreadWndProcessReentrant ==
    /\ queue # <<>>
    /\ queue' = Tail(queue)
    /\ proc' = [proc EXCEPT !.msg = Head(queue)]
    /\ wnd_process_msg(Head(queue))

(* an iteration that hands every message to the window procedure *)
MainThreadWndProcessNoBreak ==
    /\ pc = "idle"
    /\ queue # <<>>
    /\ queue' = Tail(queue)
    /\ proc' = [proc EXCEPT !.msg = Head(queue)]
    /\ notify_wnd_proc(Head(queue))

(* one iteration of the loop: GetMessage() takes the oldest message into   *)
(* msg; the call returns only when there is one                            *)
MainThreadWndProcess ==
    /\ pc = "idle"
    /\ queue # <<>>
    /\ queue' = Tail(queue)
    /\ proc' = [proc EXCEPT !.msg = Head(queue)]
    /\ wnd_process_msg(Head(queue))

InitLoop ==
    /\ InitProgram
    /\ platform = [modes |-> LoopModes, disk |-> Disk, faults |-> FALSE]

(* the platform of these runs reports active displays only *)
NextLoop ==
    \/ EnumEnd
    \/ EnumActive
    \/ VirtualDesktopUpdate
    \/ VirtualDesktopPositionReposition
    \/ GenerateSkip
    \/ GenerateLoad
    \/ GenerateCanvas
    \/ GenerateWrite
    \/ DesktopWallpaperSet
    \/ PostMessage
    \/ MainThreadWndProcess

SpecLoop == InitLoop /\ [][NextLoop]_vars

----------------------------------------------------------------------------
(* wmain() from its entry to its return.  pc names the call the thread is  *)
(* about to make, "exit_magick" and "exit_usrcfg" the two labels, "exited" *)
(* the state after the return; the exit code is proc.err.  A function that *)
(* fails returns a negative errno value.                                   *)

(* another thread posts WM_QUIT to the thread's queue *)
PostQuit ==
    /\ proc.wnd
    /\ Len(queue) < MaxQueue
    /\ queue' = Append(queue, [message |-> "WM_QUIT", posted |-> cycle,
                               busy |-> pc # "idle"])
    /\ UNCHANGED <<monitors, virtual_desktop, pc, idx, wallpapers, canvas,
                   gen_err, platform, proc, out_file, installed, cycle, cyc>>

(* if ((err = wchar_longopts_parse(wargc, wargv, opt_list))) return err *)
WcharLongoptsParse ==
    /\ pc = "opts"
    /\ \E err \in {0, -22} :
          /\ proc' = [proc EXCEPT !.err = err]
          /\ pc' = IF err # 0 THEN "exited" ELSE "usrcfg_init"
    /\ UNCHANGED <<monitors, virtual_desktop, idx, wallpapers, canvas, gen_err,
                   platform, out_file, installed, cycle, cyc, queue>>

(* if ((err = usrcfg_init())) return err *)
UsrcfgInit ==
    /\ pc = "usrcfg_init"
    /\ \E err \in {0, -22} :
          /\ proc' = [proc EXCEPT !.err = err, !.usrcfg = (err = 0)]
          /\ pc' = IF err # 0 THEN "exited" ELSE "output_path_set"
    /\ UNCHANGED <<monitors, virtual_desktop, idx, wallpapers, canvas, gen_err,
                   platform, out_file, installed, cycle, cyc, queue>>

(* if ((err = output_path_set())) goto exit_usrcfg *)
OutputPathSet ==
    /\ pc = "output_path_set"
    /\ \E err \in {0, -22} :
          /\ proc' = [proc EXCEPT !.err = err]
          /\ pc' = IF err # 0 THEN "exit_usrcfg" ELSE "magick_init"
    /\ UNCHANGED <<monitors, virtual_desktop, idx, wallpapers, canvas, gen_err,
                   platform, out_file, installed, cycle, cyc, queue>>

InitializeMagick ==
    /\ pc = "magick_init"
    /\ proc' = [proc EXCEPT !.magick.inits = @ + 1]
    /\ pc' = "notify_wnd_create"
    /\ UNCHANGED <<monitors, virtual_desktop, idx, wallpapers, canvas, gen_err,
                   platform, out_file, installed, cycle, cyc, queue>>

(* the failure of notify_wnd_create() taken to the label exit_usrcfg *)
NotifyWndCreateSkipMagick ==
    /\ pc = "notify_wnd_create"
    /\ \/ /\ proc' = [proc EXCEPT !.wnd = TRUE]
          /\ StartUpdate(AtStartup)
          /\ UNCHANGED queue
       \/ /\ pc' = "exit_usrcfg"
          /\ UNCHANGED <<monitors, virtual_desktop, idx, wallpapers, canvas,
                         gen_err, platform, out_file, installed, cycle, cyc,
                         queue, proc>>

(* if (NULL == (notify_wnd = notify_wnd_create())) goto exit_magick;       *)
(* else the first wallpaper_update() is entered.  err is not assigned.     *)
NotifyWndCreate ==
    /\ pc = "notify_wnd_create"
    /\ \/ /\ proc' = [proc EXCEPT !.wnd = TRUE]
          /\ StartUpdate(AtStartup)
          /\ UNCHANGED queue
       \/ /\ pc' = "exit_magick"
          /\ UNCHANGED <<monitors, virtual_desktop, idx, wallpapers, canvas,
                         gen_err, platform, out_file, installed, cycle, cyc,
                         queue, proc>>

DestroyWindow ==
    /\ pc = "destroy_wnd"
    /\ proc' = [proc EXCEPT !.wnd = FALSE]
    /\ pc' = "exit_magick"
    /\ UNCHANGED <<monitors, virtual_desktop, idx, wallpapers, canvas, gen_err,
                   platform, out_file, installed, cycle, cyc, queue>>

(* exit_magick: *)
DestroyMagick ==
    /\ pc = "exit_magick"
    /\ proc' = [proc EXCEPT !.magick.destroys = @ + 1]
    /\ pc' = "exit_usrcfg"
    /\ UNCHANGED <<monitors, virtual_desktop, idx, wallpapers, canvas, gen_err,
                   platform, out_file, installed, cycle, cyc, queue>>

(* exit_usrcfg: usrcfg_deinit(); return err *)
UsrcfgDeinit ==
    /\ pc = "exit_usrcfg"
    /\ proc' = [proc EXCEPT !.usrcfg = FALSE]
    /\ pc' = "exited"
    /\ UNCHANGED <<monitors, virtual_desktop, idx, wallpapers, canvas, gen_err,
                   platform, out_file, installed, cycle, cyc, queue>>

InitMain ==
    /\ monitors = [i \in MonIdx |->
                     [active |-> 0, info |-> ZeroInfo,
                      virt_pos |-> [x |-> 0, y |-> 0],
                      wallpaper |-> Profile(i)]]
    /\ virtual_desktop = ZeroRect
    /\ pc = "opts"
    /\ idx = 0
    /\ wallpapers = NoWallpapers
    /\ canvas = NullCanvas
    /\ gen_err = "OK"
    /\ platform = [modes |-> LoopModes, disk |-> Disk, faults |-> FALSE]
    /\ out_file = 0
    /\ installed = 0
    /\ cycle = 0
    /\ cyc = NewCycle
    /\ queue = <<>>
    /\ proc = AtEntry

(* the steps of the program's one thread *)
ThreadStep ==
    \/ WcharLongoptsParse
    \/ UsrcfgInit
    \/ OutputPathSet
    \/ InitializeMagick
    \/ NotifyWndCreate
    \/ EnumEnd
    \/ EnumActive
    \/ VirtualDesktopUpdate
    \/ VirtualDesktopPositionReposition
    \/ GenerateSkip
    \/ GenerateLoad
    \/ GenerateCanvas
    \/ GenerateWrite
    \/ DesktopWallpaperSet
    \/ MainThreadWndProcess
    \/ DestroyWindow
    \/ DestroyMagick
    \/ UsrcfgDeinit

NextMain ==
    \/ ThreadStep
    \/ PostMessage
    \/ PostQuit

(* the straight line of wmain() after the message loop *)
ShutdownStep ==
    \/ DestroyWindow
    \/ DestroyMagick
    \/ UsrcfgDeinit

(* Once the message loop has ended the thread is not stopped for good: the *)
(* next call of the straight line is made.  Nothing is assumed about the   *)
(* messages other threads post, nor about the progress of a cycle.         *)
SpecMain == InitMain /\ [][NextMain]_vars /\ WF_vars(ShutdownStep)

----------------------------------------------------------------------------
(* The renderer on its own: wallpaper_generate()'s first loop run on one   *)
(* active primary monitor (slot 0) after its layout, for every             *)
(* configuration and source image of a bounded set.                        *)

LoadStart(info, wallpaper, files) ==
    /\ monitors = [i \in MonIdx |->
                     IF i = 0
                     THEN [active |-> 1, info |-> info,
                           virt_pos |-> [x |-> 0, y |-> 0],
                           wallpaper |-> wallpaper]
                     ELSE [active |-> 0, info |-> ZeroInfo,
                           virt_pos |-> [x |-> 0, y |-> 0],
                           wallpaper |-> Profile(i)]]
    /\ virtual_desktop = [x |-> 0, y |-> 0,
                          width |-> info.width, height |-> info.height]
    /\ pc = "load"
    /\ idx = 0
    /\ wallpapers = NoWallpapers
    /\ canvas = NullCanvas
    /\ gen_err = "OK"
    /\ platform = [modes |-> {}, disk |-> files, faults |-> TRUE]
    /\ out_file = 0
    /\ installed = 0
    /\ cycle = 1
    /\ cyc = [NewCycle EXCEPT !.reported = {0}, !.layout_err = "OK"]
    /\ queue = <<>>
    /\ proc = Started

Dims == 1 .. MaxDim

(* every style, monitor size and source size; the source is the file of    *)
(* the monitor's own orientation                                           *)
InitStyle ==
    \E mw \in Dims, mh \in Dims, sw \in Dims, sh \in Dims, style \in Styles :
       LoadStart([x |-> 0, y |-> 0, width |-> mw, height |-> mh,
                  orientation |-> ORIENT_0, is_primary |-> 1],
                 [auto_rotate |-> 0, style |-> style,
                  files |-> [NoFiles EXCEPT ![ORIENT_0] = "A"]],
                 [p \in {"A"} |-> <<sw, sh>>])

(* every orientation, files[] table and auto_rotate setting *)
InitResolve ==
    \E o \in Orients \cup {ORIENT_UNKNOWN}, auto \in {0, 1},
       files \in [Orients -> {NULL, "", "A", "B"}] :
       LoadStart([x |-> 0, y |-> 0, width |-> 2, height |-> 2,
                  orientation |-> o, is_primary |-> 1],
                 [auto_rotate |-> auto, style |-> "stretch", files |-> files],
                 [p \in {"A", "B"} |-> IF p = "A" THEN <<2, 2>> ELSE <<4, 2>>])

NextLoad ==
    \/ GenerateSkip
    \/ GenerateLoad

SpecStyle == InitStyle /\ [][NextLoad]_vars

SpecResolve == InitResolve /\ [][NextLoad]_vars

----------------------------------------------------------------------------
(* The union on its own: the layout of the first cycle run on two active   *)
(* monitors (slots 0 and 1) with every pair of rectangles of a bounded     *)
(* set.  The fold adopts the rectangle of slot 0 and then calls            *)
(* virtual_desktop_size_compute() with it and the rectangle of slot 1.     *)

Coords == (1 - MaxPos) .. MaxPos
Sizes == 0 .. MaxPos

RectInfo(x, y, w, h) ==
    [x |-> x, y |-> y, width |-> w, height |-> h, orientation |-> ORIENT_0,
     is_primary |-> IF x = 0 /\ y = 0 THEN 1 ELSE 0]

InitUnion ==
    \E ax \in Coords, ay \in Coords, aw \in Sizes, ah \in Sizes,
       bx \in Coords, by \in Coords, bw \in Sizes, bh \in Sizes :
       /\ monitors = [i \in MonIdx |->
                        [active |-> IF i <= 1 THEN 1 ELSE 0,
                         info |-> IF i = 0 THEN RectInfo(ax, ay, aw, ah)
                                  ELSE IF i = 1 THEN RectInfo(bx, by, bw, bh)
                                  ELSE ZeroInfo,
                         virt_pos |-> [x |-> 0, y |-> 0],
                         wallpaper |-> Profile(i)]]
       /\ virtual_desktop = ZeroRect
       /\ pc = "vd_update"
       /\ idx = 0
       /\ wallpapers = NoWallpapers
       /\ canvas = NullCanvas
       /\ gen_err = "OK"
       /\ platform = [modes |-> {}, disk |-> Disk, faults |-> FALSE]
       /\ out_file = 0
       /\ installed = 0
       /\ cycle = 1
       /\ cyc = [NewCycle EXCEPT !.reported = {0, 1}]
       /\ queue = <<>>
       /\ proc = Started

NextLayout ==
    \/ VirtualDesktopUpdate
    \/ VirtualDesktopPositionReposition

SpecUnion == InitUnion /\ [][NextLayout]_vars

----------------------------------------------------------------------------
(* Vocabulary of the properties.                                           *)

Active == {i \in MonIdx : monitors[i].active = 1}

(* the thread is past the layout of the running cycle *)
AfterLayout == pc \in {"load", "canvas", "write", "set", "idle"}

MinOf(S) == CHOOSE v \in S : \A u \in S : v <= u
MaxOf(S) == CHOOSE v \in S : \A u \in S : v >= u

(* the bounding box of the active monitors *)
BoundingBox ==
    LET x0 == MinOf({monitors[i].info.x : i \in Active})
        y0 == MinOf({monitors[i].info.y : i \in Active})
        x1 == MaxOf({monitors[i].info.x + monitors[i].info.width : i \in Active})
        y1 == MaxOf({monitors[i].info.y + monitors[i].info.height : i \in Active})
    IN  [x |-> x0, y |-> y0, width |-> x1 - x0, height |-> y1 - y0]

(* two monitors share interior points / share at least a border point *)
Overlap(a, b) ==
    /\ a.x < b.x + b.width /\ b.x < a.x + a.width
    /\ a.y < b.y + b.height /\ b.y < a.y + a.height
Touch(a, b) ==
    /\ a.x <= b.x + b.width /\ b.x <= a.x + a.width
    /\ a.y <= b.y + b.height /\ b.y <= a.y + a.height

RECURSIVE Reach(_, _)
Reach(S, n) ==
    IF n = 0
    THEN S
    ELSE Reach(S \cup {j \in Active : \E i \in S :
                         Touch(monitors[i].info, monitors[j].info)}, n - 1)

(* a layout the platform's display settings accept: a primary display at   *)
(* (0,0), no two displays overlapping, every display reachable from the    *)
(* primary one through displays that touch                                 *)
DesktopLayout ==
    /\ \E i \in Active : monitors[i].info.x = 0 /\ monitors[i].info.y = 0
    /\ \A i, j \in Active :
          i # j => ~Overlap(monitors[i].info, monitors[j].info)
    /\ \E i \in Active : Reach({i}, MONITOR_COUNT_MAX) = Active

----------------------------------------------------------------------------
(* C1: folding the active monitors in index order from an empty rectangle  *)
(* yields their bounding box.  Stated for the first cycle (whose fold      *)
(* starts from the empty rectangle) and for layouts the platform accepts;  *)
(* the fold of the code does not satisfy it.                               *)
C1_FoldIsBoundingBox ==
    (pc = "vd_reposition" /\ cycle = 1 /\ DesktopLayout)
        => virtual_desktop = BoundingBox

(* C2: after layout every active monitor lies inside the canvas.  Stated   *)
(* for layouts the platform accepts; violated by the code.                 *)
C2_MonitorsInsideCanvas ==
    (AfterLayout /\ DesktopLayout)
        => \A i \in Active :
              /\ monitors[i].virt_pos.x + monitors[i].info.width
                    <= virtual_desktop.width
              /\ monitors[i].virt_pos.y + monitors[i].info.height
                    <= virtual_desktop.height

(* C3: after layout, in every cycle, every active monitor has a            *)
(* non-negative virt_pos.                                                  *)
C3_VirtPosNonNegative ==
    AfterLayout
        => \A i \in Active :
              monitors[i].virt_pos.x >= 0 /\ monitors[i].virt_pos.y >= 0

(* a later cycle has laid out monitors at negative x and at negative y *)
C3_Witness ==
    /\ pc = "load" /\ cycle = 2
    /\ \E i, j \in Active :
          /\ monitors[i].info.x < 0 /\ monitors[i].virt_pos.x = 0
          /\ monitors[j].info.y < 0 /\ monitors[j].virt_pos.y = 0

(* C4: in every cycle the canvas and the positions are those of a fold     *)
(* from the empty rectangle over that cycle's active monitors, so they     *)
(* depend on nothing but these.  Stated for cycles whose active monitors   *)
(* were all reported by that cycle's enumeration, in a layout the platform *)
(* accepts; violated by the code from the second cycle on.                 *)
C4_CanvasFromEmptyFold ==
    (pc = "load" /\ Active \subseteq cyc.reported /\ DesktopLayout)
        => LET d == virtual_desktop_update(ZeroRect, monitors)
           IN  /\ virtual_desktop.width = d.width
               /\ virtual_desktop.height = d.height
               /\ \A i \in Active :
                     /\ monitors[i].virt_pos.x = monitors[i].info.x - d.x
                     /\ monitors[i].virt_pos.y = monitors[i].info.y - d.y

(* C5: a slot the enumeration of the running cycle did not report is       *)
(* inactive in that cycle.  Violated by the code from the second cycle on. *)
C5_UnreportedSlotInactive ==
    pc # "enum" => \A i \in MonIdx \ cyc.reported : monitors[i].active = 0

(* C6: a cycle without active monitors fails its layout and is skipped:    *)
(* no canvas, no file written, no install.  Violated by the code.          *)
C6_EmptyLayoutSkipsCycle ==
    (pc = "idle" /\ Active = {})
        => /\ cyc.layout_err = "EINVAL"
           /\ cyc.canvas_stage = "none"
           /\ cyc.written = NullCanvas
           /\ ~cyc.set_called

(* C7: a cycle in which a monitor failed to render, and whose canvas was   *)
(* composed and written, calls the install collaborator.  Violated by the  *)
(* code when the failing monitor is the last active one.                   *)
C7_RenderFailureDoesNotAbort ==
    (/\ pc = "idle"
     /\ \E i \in MonIdx : cyc.load_err[i] \notin {"none", "OK"}
     /\ cyc.written # NullCanvas)
        => cyc.set_called

(* C8: the install collaborator is called only in a cycle whose canvas was *)
(* allocated, composed and written.  Stated for cycles with an active      *)
(* monitor; violated by the code.                                          *)
C8_InstallOnlyAfterWrite ==
    (cyc.set_called /\ Active # {}) => cyc.written # NullCanvas

(* C9: a style step that reports success leaves a tile of exactly the      *)
(* monitor's size.  Violated by the code (CENTER).                         *)
C9_StyleGivesTargetSize ==
    \A i \in MonIdx :
       cyc.load_err[i] = "OK"
          => /\ wallpapers[i].width = monitors[i].info.width
             /\ wallpapers[i].height = monitors[i].info.height

(* The slot the preference order of the resolver names for monitor m, -1   *)
(* for none: own orientation if set and non-empty; else, with auto_rotate, *)
(* the flipped orientation if set; else the first set slot.                *)
PreferredSlot(m) ==
    LET f == m.wallpaper.files
        o == m.info.orientation
        flipped == (o + 2) % 4
        set == {k \in Orients : f[k] # NULL}
    IN  IF f[o] # NULL /\ f[o] # "" THEN o
        ELSE IF m.wallpaper.auto_rotate = 0 THEN -1
        ELSE IF f[flipped] # NULL THEN flipped
        ELSE IF set # {} THEN MinOf(set)
        ELSE -1

(* C10: the source a monitor is rendered from is the first available slot  *)
(* of the order own, flipped, 0, 90, 180, 270 degrees, and the monitor has *)
(* no source exactly when the order names none.                            *)
C10_PreferenceOrder ==
    \A i \in MonIdx :
       (cyc.load_err[i] # "none" /\ monitors[i].info.orientation \in Orients)
          => /\ wallpapers[i] # NullImg
                   => wallpapers[i].slot = PreferredSlot(monitors[i])
             /\ cyc.load_err[i] = "ENODATA"
                   <=> PreferredSlot(monitors[i]) = -1

(* the flipped slot was taken although a slot earlier in the scan is set *)
C10_Witness ==
    \E i \in MonIdx :
       /\ monitors[i].info.orientation = ORIENT_90
       /\ monitors[i].wallpaper.files[ORIENT_0] = "B"
       /\ monitors[i].wallpaper.files[ORIENT_270] = "A"
       /\ wallpapers[i] # NullImg
       /\ wallpapers[i].slot = ORIENT_270

(* the files[] entries of monitor m that are set (non-NULL) *)
SetPaths(m) ==
    {m.wallpaper.files[k] : k \in {j \in Orients : m.wallpaper.files[j] # NULL}}

(* C11: whenever a source is resolved for a monitor, the rotation is one   *)
(* of 0, 90, 180, 270 degrees and the path is one of the entries set in    *)
(* the monitor's files[] table.                                            *)
C11_RotationAndPathInRange ==
    \A i \in MonIdx :
       cyc.source[i].slot >= 0
          => /\ cyc.source[i].rotation \in {0, 90, 180, 270}
             /\ cyc.source[i].path \in SetPaths(monitors[i])

(* a source of a lower orientation than the monitor's was taken (the       *)
(* difference of the two angles is negative) and one of a higher, too      *)
C11_Witness ==
    \E i \in MonIdx :
       /\ cyc.source[i].slot >= 0
       /\ cyc.source[i].slot < monitors[i].info.orientation
       /\ cyc.source[i].rotation \in {90, 180, 270}

(* scenario S4: monitor i is active at 90 degrees with auto_rotate on and  *)
(* a source in the 0-degree slot only, and its source has been resolved    *)
S4Resolved(i) ==
    /\ monitors[i].active = 1
    /\ monitors[i].info.orientation = ORIENT_90
    /\ monitors[i].wallpaper.auto_rotate = 1
    /\ monitors[i].wallpaper.files = [NoFiles EXCEPT ![ORIENT_0] = "A"]
    /\ cyc.load_err[i] # "none"

(* C12 as stated: in scenario S4 the 0-degree file is taken with a         *)
(* rotation of 270 degrees.  Violated: the code rotates by 90.             *)
C12_S4Rotation270 ==
    \A i \in MonIdx :
       S4Resolved(i)
          => cyc.source[i] = [slot |-> ORIENT_0, path |-> "A", rotation |-> 270]

(* C12 amended: in scenario S4 the 0-degree file is taken with a rotation  *)
(* of 90 degrees, which is (360 - (0 - 90)) mod 360.                       *)
C12_S4Rotation90 ==
    \A i \in MonIdx :
       S4Resolved(i)
          => cyc.source[i] = [slot |-> ORIENT_0, path |-> "A", rotation |-> 90]

(* scenario S4 was rendered: the tile comes from slot 0, turned by 90 *)
C12_Witness ==
    \E i \in MonIdx :
       /\ S4Resolved(i)
       /\ cyc.load_err[i] = "OK"
       /\ wallpapers[i].slot = ORIENT_0
       /\ wallpapers[i].rot = 90

(* monitor i is active, the files[] entry of its orientation is unset or   *)
(* empty and its auto_rotate is off                                        *)
NoSourceMonitor(i) ==
    /\ monitors[i].active = 1
    /\ monitors[i].info.orientation \in Orients
    /\ monitors[i].wallpaper.files[monitors[i].info.orientation] \in {NULL, ""}
    /\ monitors[i].wallpaper.auto_rotate = 0

(* the part of the canvas a pasted tile covers / that belongs to monitor i *)
TileRect(t) ==
    [x |-> t.x, y |-> t.y, width |-> t.img.width, height |-> t.img.height]
MonitorRegion(i) ==
    [x |-> monitors[i].virt_pos.x, y |-> monitors[i].virt_pos.y,
     width |-> monitors[i].info.width, height |-> monitors[i].info.height]

CanvasTiles == {canvas.tiles[k] : k \in DOMAIN canvas.tiles}

(* C13: on the composed canvas a monitor without a source for its          *)
(* orientation and with auto_rotate off has no tile, no tile covers any    *)
(* part of its region (it keeps the background), and every other monitor   *)
(* that holds a tile has it pasted at its own position.  Stated for        *)
(* layouts the platform accepts; violated by the code.                     *)
C13_NoSourceLeavesBackground ==
    (pc = "write" /\ DesktopLayout)
        => \A i \in Active :
              NoSourceMonitor(i)
                 => /\ cyc.load_err[i] = "ENODATA"
                    /\ \A t \in CanvasTiles :
                          /\ t.mon # i
                          /\ ~Overlap(TileRect(t), MonitorRegion(i))
                    /\ \A j \in Active \ {i} :
                          wallpapers[j] # NullImg
                             => [mon |-> j, x |-> monitors[j].virt_pos.x,
                                 y |-> monitors[j].virt_pos.y,
                                 img |-> wallpapers[j]] \in CanvasTiles

(* C14: after the enumeration of any cycle at most one monitor has         *)
(* is_primary set, whatever positions were reported.  Violated by the code *)
(* when two active monitors are reported at (0,0).                         *)
C14_AtMostOnePrimary ==
    pc # "enum"
        => Cardinality({i \in MonIdx : monitors[i].info.is_primary = 1}) <= 1

(* the slots the running cycle's enumeration reported as not active or as  *)
(* a mirroring driver                                                      *)
Excluded == cyc.inactive \cup cyc.mirror

(* the rectangles of the active monitors outside skip, in index order *)
RECURSIVE RectsFrom(_, _)
RectsFrom(i, skip) ==
    IF i >= MONITOR_COUNT_MAX
    THEN <<>>
    ELSE (IF i \in skip \/ monitors[i].active = 0
          THEN <<>> ELSE << MonRect(monitors[i]) >>) \o RectsFrom(i + 1, skip)

RECURSIVE FoldRects(_, _)
FoldRects(desk, rects) ==
    IF rects = <<>>
    THEN desk
    ELSE FoldRects(virtual_desktop_size_compute(desk, Head(rects)), Tail(rects))

(* C15: a monitor reported as inactive or as a mirroring driver (also when *)
(* flagged active) is marked inactive, is not rendered, holds no tile and  *)
(* has none pasted on the canvas or in the written file, and the fold of   *)
(* the cycle is the fold over the other monitors' rectangles.              *)
C15_ExcludedContributeNothing ==
    [][ /\ \A i \in Excluded' :
              /\ monitors'[i].active = 0
              /\ cyc'.load_err[i] = "none"
              /\ wallpapers'[i] = NullImg
              /\ \A k \in DOMAIN canvas'.tiles : canvas'.tiles[k].mon # i
              /\ \A k \in DOMAIN cyc'.written.tiles : cyc'.written.tiles[k].mon # i
        /\ pc = "vd_update"
              => virtual_desktop' = FoldRects(virtual_desktop, RectsFrom(0, Excluded))
      ]_vars

(* a later cycle in which a slot was reported as a mirroring driver and    *)
(* another as not active has written a canvas with the other monitor's     *)
(* tile                                                                    *)
C15_Witness ==
    /\ cycle = 2 /\ pc \in {"set", "idle"}
    /\ cyc.mirror # {} /\ cyc.inactive # {}
    /\ cyc.written # NullCanvas
    /\ cyc.written.tiles # <<>>

(* the two rectangles the union is run on, and the state right after it *)
RectA == MonRect(monitors[0])
RectB == MonRect(monitors[1])
AfterUnion == pc = "vd_reposition" /\ cycle = 1

(* a rectangle is empty when both its width and its height are zero *)
NonEmpty(r) == ~(r.width = 0 /\ r.height = 0)

(* C16: the union of two non-empty rectangles that do not overlap is the   *)
(* same whichever of the two is the current rectangle and whichever the    *)
(* addend.                                                                 *)
C16_UnionCommutesOnDisjoint ==
    (AfterUnion /\ NonEmpty(RectA) /\ NonEmpty(RectB) /\ ~Overlap(RectA, RectB))
        => virtual_desktop = virtual_desktop_size_compute(RectB, RectA)

(* the union was taken of two rectangles of positive size that are apart   *)
(* on both axes, the addend left of and above the current one              *)
C16_Witness ==
    /\ AfterUnion
    /\ RectA.width > 0 /\ RectA.height > 0
    /\ RectB.width > 0 /\ RectB.height > 0
    /\ RectB.x + RectB.width < RectA.x
    /\ RectB.y + RectB.height < RectA.y
    /\ virtual_desktop.x = RectB.x /\ virtual_desktop.y = RectB.y

(* C17: the union of a rectangle with itself is that rectangle, for every  *)
(* signed origin and non-negative size.                                    *)
C17_UnionIdempotent ==
    (AfterUnion /\ RectA = RectB) => virtual_desktop = RectA

(* the union of a rectangle of positive size at a negative origin with     *)
(* itself was taken                                                        *)
C17_Witness ==
    /\ AfterUnion /\ RectA = RectB
    /\ RectA.x < 0 /\ RectA.y < 0 /\ RectA.width > 0 /\ RectA.height > 0
    /\ virtual_desktop = RectA

(* C18: after the layout of any cycle with an active monitor the canvas    *)
(* rectangle has its origin at (0,0) and is at least as wide and as high   *)
(* as every active monitor.                                                *)
C18_CanvasOriginAndMinSize ==
    (AfterLayout /\ Active # {})
        => /\ virtual_desktop.x = 0 /\ virtual_desktop.y = 0
           /\ \A i \in Active :
                 /\ virtual_desktop.width >= monitors[i].info.width
                 /\ virtual_desktop.height >= monitors[i].info.height

(* a later cycle has laid out two monitors of different heights, one of    *)
(* them above the primary display's origin                                 *)
C18_Witness ==
    /\ pc = "load" /\ cycle = 2
    /\ \E i, j \in Active :
          /\ monitors[i].info.height < monitors[j].info.height
          /\ monitors[j].info.y < 0
          /\ virtual_desktop.height >= monitors[j].info.height

(* C19: the executions of wallpaper_update() do not overlap.  A cycle      *)
(* starts only when no cycle is running, and the monitors, the desktop     *)
(* rectangle, the output file and the installed wallpaper are touched only *)
(* by steps of the one running cycle.                                      *)
C19_UpdatesSerialized ==
    [][ /\ cycle' # cycle
              => (pc = "idle" /\ cycle' = cycle + 1 /\ pc' = "enum")
        /\ (\/ monitors' # monitors
            \/ virtual_desktop' # virtual_desktop
            \/ out_file' # out_file
            \/ installed' # installed)
              => (pc # "idle" /\ cycle' = cycle)
      ]_vars

(* a cycle was started by a display-change message that had arrived while  *)
(* the cycle before it was running                                         *)
C19_Witness ==
    /\ cycle >= 2
    /\ pc = "enum"
    /\ cyc.trigger.busy
    /\ cyc.trigger.posted = cycle - 1

(* C20: no message is taken from the queue while a cycle runs, and         *)
(* display-change messages that arrive in a burst are coalesced: the       *)
(* message that starts a cycle arrived during or after the cycle before    *)
(* it, so a message of an earlier burst never starts a cycle of its own.   *)
(* Stated for the messages that arrived while a cycle was running.         *)
(* Violated by the code: every queued message starts its own cycle.        *)
C20_BurstCoalesced ==
    [][ /\ Len(queue') < Len(queue) => pc = "idle"
        /\ (cycle' = cycle + 1 /\ cyc'.trigger.busy)
              => cyc'.trigger.posted = cycle
      ]_vars

(* the positions of the thread inside wallpaper_update() *)
CycleStages ==
    {"enum", "vd_update", "vd_reposition", "load", "canvas", "write", "set"}

(* the message loop has taken WM_QUIT from the queue *)
QuitDequeued == proc.msg.message = "WM_QUIT"

(* wmain() has returned with the notifier window destroyed, the image      *)
(* library torn down and the configuration released                        *)
ShutDown ==
    /\ pc = "exited"
    /\ ~proc.wnd
    /\ proc.magick.destroys = 1
    /\ ~proc.usrcfg

(* C21: a Quit event ends the event loop.  Once WM_QUIT is dequeued no     *)
(* update cycle starts; Quit is dequeued only between cycles and a running *)
(* cycle ends only by its own last step, so none is cut short; and from    *)
(* the dequeue on the process always reaches shutdown.                     *)
C21_QuitEndsLoop ==
    /\ [][ /\ QuitDequeued => (cycle' = cycle /\ pc' \notin CycleStages)
           /\ (QuitDequeued' /\ ~QuitDequeued) => pc = "idle"
           /\ Len(queue') < Len(queue) => pc = "idle"
           /\ (pc \in CycleStages /\ pc' \notin CycleStages) => pc' = "idle"
         ]_vars
    /\ QuitDequeued ~> ShutDown

(* the process has shut down on a WM_QUIT that was posted while the cycle  *)
(* of a display change was running, and that cycle ran to its install      *)
C21_Witness ==
    /\ ShutDown
    /\ QuitDequeued
    /\ proc.msg.busy /\ proc.msg.posted = cycle
    /\ cycle >= 2
    /\ cyc.set_called

(* C22: the image library is initialized at most once, it is torn down     *)
(* at most as often as it was initialized and, when wmain() has returned,  *)
(* exactly as often; and an update cycle runs only while the library is    *)
(* initialized and not torn down.                                          *)
C22_MagickOncePerProcess ==
    /\ proc.magick.inits <= 1
    /\ proc.magick.destroys <= proc.magick.inits
    /\ pc = "exited" => proc.magick.destroys = proc.magick.inits
    /\ (pc \in CycleStages \/ (cycle > 0 /\ pc = "idle"))
          => (proc.magick.inits = 1 /\ proc.magick.destroys = 0)

(* wmain() has returned after notify_wnd_create() failed: the library was  *)
(* initialized, no cycle ran, and the library was torn down                *)
C22_Witness ==
    /\ pc = "exited"
    /\ cycle = 0
    /\ proc.magick.inits = 1
    /\ proc.magick.destroys = 1

(* wmain() has returned after the message loop ended on WM_QUIT *)
CleanShutdown == pc = "exited" /\ QuitDequeued

(* C23: the exit code is 0 exactly on clean shutdown, non-zero on every    *)
(* failure of option parsing, configuration load, output-path setup and    *)
(* notifier-window creation.  Violated by the code: when                   *)
(* notify_wnd_create() fails, wmain() returns its err, which is still 0.   *)
C23_ExitCode ==
    pc = "exited" => (proc.err = 0 <=> CleanShutdown)

(* two rectangles lie side by side and share a piece of an edge of         *)
(* positive length                                                         *)
ShareEdge(a, b) ==
    \/ /\ (a.x + a.width = b.x \/ b.x + b.width = a.x)
       /\ a.y < b.y + b.height /\ b.y < a.y + a.height
    \/ /\ (a.y + a.height = b.y \/ b.y + b.height = a.y)
       /\ a.x < b.x + b.width /\ b.x < a.x + a.width

RECURSIVE ReachEdge(_, _)
ReachEdge(S, n) ==
    IF n = 0
    THEN S
    ELSE ReachEdge(S \cup {j \in Active : \E i \in S :
                             ShareEdge(monitors[i].info, monitors[j].info)},
                   n - 1)

(* a gap-free layout: two or more monitors of positive size, no two        *)
(* overlapping, every one sharing an edge segment with another and all of  *)
(* them joined through shared edges                                        *)
GapFreeLayout ==
    /\ Cardinality(Active) >= 2
    /\ \A i \in Active :
          monitors[i].info.width > 0 /\ monitors[i].info.height > 0
    /\ \A i, j \in Active :
          i # j => ~Overlap(monitors[i].info, monitors[j].info)
    /\ \E i \in Active : ReachEdge({i}, MONITOR_COUNT_MAX) = Active

(* the orders in which the monitors of S can be enumerated, and the fold   *)
(* from the empty rectangle over the monitors in the order s               *)
Orders(S) ==
    {s \in [1 .. Cardinality(S) -> S] :
        \A a, b \in DOMAIN s : a # b => s[a] # s[b]}
FoldInOrder(s) ==
    FoldRects(ZeroRect, [k \in DOMAIN s |-> MonRect(monitors[s[k]])])

(* C24: for a gap-free layout the fold of the first cycle is the bounding  *)
(* box of the active monitors, and the fold in every other order of the    *)
(* same monitors gives the same rectangle.  Violated by the code when two  *)
(* monitors folded one after the other do not touch.                       *)
C24_FoldOrderIndependent ==
    (pc = "vd_reposition" /\ cycle = 1 /\ GapFreeLayout)
        => /\ virtual_desktop = BoundingBox
           /\ \A s \in Orders(Active) : FoldInOrder(s) = virtual_desktop

(* monitor i has a non-empty file for its own orientation *)
ExactFile(i) ==
    LET own == monitors[i].wallpaper.files[monitors[i].info.orientation]
    IN  own # NULL /\ own # ""

(* C25: for every monitor orientation and every chosen source orientation *)
(* the rotation is (360 - (chosen - current)) mod 360 in degrees, with the *)
(* non-negative modulus, also when the chosen orientation is the smaller   *)
(* one; with the file of the monitor's own orientation no rotation is      *)
(* applied; and the rendered tile carries exactly that rotation.           *)
C25_RotationFormula ==
    \A i \in MonIdx :
       cyc.source[i].slot >= 0
          => LET current_deg == monitors[i].info.orientation * 90
                 chosen_deg == cyc.source[i].slot * 90
             IN  /\ ExactFile(i)
                       => /\ cyc.source[i].slot = monitors[i].info.orientation
                          /\ cyc.source[i].rotation = 0
                 /\ ~ExactFile(i)
                       => cyc.source[i].rotation
                             = (360 - (chosen_deg - current_deg)) % 360
                 /\ cyc.load_err[i] = "OK"
                       => wallpapers[i].rot = cyc.source[i].rotation

(* a monitor at 270 degrees was rendered from the file of 0 degrees, which *)
(* makes the difference of the angles negative: the tile is turned by 270  *)
C25_Witness ==
    \E i \in MonIdx :
       /\ monitors[i].info.orientation = ORIENT_270
       /\ cyc.source[i].slot = ORIENT_0
       /\ cyc.load_err[i] = "OK"
       /\ wallpapers[i].rot = 270

(* C26: a monitor whose render ended in an error holds no image in its     *)
(* tile slot and has no tile on the canvas.  Violated by the code: a       *)
(* failed style step leaves its wand in the slot and the second loop       *)
(* pastes it.                                                              *)
C26_OnlyRenderedTilesPasted ==
    \A i \in MonIdx :
       cyc.load_err[i] \notin {"none", "OK"}
          => /\ wallpapers[i] = NullImg
             /\ \A t \in CanvasTiles : t.mon # i

(* the size on disk of the picture monitor i is rendered from *)
SourceWidth(i) == platform.disk[cyc.source[i].path][1]
SourceHeight(i) == platform.disk[cyc.source[i].path][2]

(* monitor i was rendered with the given style from a picture that was not *)
(* rotated                                                                 *)
Rendered(i, style) ==
    /\ monitors[i].wallpaper.style = style
    /\ cyc.load_err[i] = "OK"
    /\ cyc.source[i].slot >= 0
    /\ cyc.source[i].rotation = 0

(* C27: TILE with a source (sw, sh) smaller than the target (MW, MH) on at *)
(* least one axis ends with a tile of the target's size on which the       *)
(* source was pasted at exactly the offsets (i*sw, j*sh) with i*sw < MW    *)
(* and j*sh < MH, row by row from (0,0), so that every pixel of the target *)
(* lies under a copy.                                                      *)
C27_TileGrid ==
    \A m \in MonIdx :
       Rendered(m, "tile")
          => LET sw == SourceWidth(m)
                 sh == SourceHeight(m)
                 MW == monitors[m].info.width
                 MH == monitors[m].info.height
                 nx == Cardinality({i \in 0 .. MW : i * sw < MW})
                 ny == Cardinality({j \in 0 .. MH : j * sh < MH})
                 copies == wallpapers[m].copies
             IN  (sw < MW \/ sh < MH)
                    => /\ wallpapers[m].width = MW
                       /\ wallpapers[m].height = MH
                       /\ copies = [k \in 1 .. nx * ny |->
                                      << ((k - 1) % nx) * sw,
                                         ((k - 1) \div nx) * sh >>]
                       /\ \A px \in 0 .. MW - 1, py \in 0 .. MH - 1 :
                             \E k \in DOMAIN copies :
                                /\ copies[k][1] <= px /\ px < copies[k][1] + sw
                                /\ copies[k][2] <= py /\ py < copies[k][2] + sh

(* a 4x3 target was tiled with a 3x2 source: two rows of two copies, the   *)
(* last ones cut by the right and the lower edge                           *)
C27_Witness ==
    \E m \in MonIdx :
       /\ Rendered(m, "tile")
       /\ monitors[m].info.width = 4 /\ monitors[m].info.height = 3
       /\ SourceWidth(m) = 3 /\ SourceHeight(m) = 2
       /\ wallpapers[m].copies = << <<0, 0>>, <<3, 0>>, <<0, 2>>, <<3, 2>> >>

(* C28: CENTER with a source no larger than the target on both axes lays   *)
(* the source at the offset (floor((MW - sw) / 2), floor((MH - sh) / 2)):  *)
(* with an odd difference the extra pixel of padding goes to the right and *)
(* the bottom.  Violated by the code for a target of even and a source of  *)
(* odd size.                                                               *)
C28_CenterOffset ==
    \A m \in MonIdx :
       Rendered(m, "center")
          => LET sw == SourceWidth(m)
                 sh == SourceHeight(m)
                 MW == monitors[m].info.width
                 MH == monitors[m].info.height
             IN  (sw <= MW /\ sh <= MH)
                    => wallpapers[m].at = [x |-> (MW - sw) \div 2,
                                           y |-> (MH - sh) \div 2]

(* the places in the paste sequence of the tiles that cover the canvas     *)
(* pixel (px, py)                                                          *)
Covering(px, py) ==
    {k \in DOMAIN canvas.tiles :
        LET r == TileRect(canvas.tiles[k])
        IN  /\ r.x <= px /\ px < r.x + r.width
            /\ r.y <= py /\ py < r.y + r.height}

(* C29: the composed canvas holds the tiles of the active monitors that    *)
(* have one, pasted in ascending index order, each at its monitor's        *)
(* virt_pos; the tile pasted last on a pixel, which is the one left there, *)
(* is that of the highest monitor index among the tiles covering it.       *)
C29_PasteOrder ==
    pc = "write"
       => /\ {canvas.tiles[k].mon : k \in DOMAIN canvas.tiles}
                = {i \in Active : wallpapers[i] # NullImg}
          /\ \A k \in DOMAIN canvas.tiles :
                LET t == canvas.tiles[k]
                IN  /\ t.x = monitors[t.mon].virt_pos.x
                    /\ t.y = monitors[t.mon].virt_pos.y
                    /\ t.img = wallpapers[t.mon]
          /\ \A k, l \in DOMAIN canvas.tiles :
                k < l => canvas.tiles[k].mon < canvas.tiles[l].mon
          /\ \A px \in 0 .. canvas.width - 1, py \in 0 .. canvas.height - 1 :
                Covering(px, py) # {}
                   => canvas.tiles[MaxOf(Covering(px, py))].mon
                         = MaxOf({canvas.tiles[k].mon : k \in Covering(px, py)})

(* a canvas was composed on which the tiles of two monitors overlap and a  *)
(* third tile lies at another position                                     *)
C29_Witness ==
    /\ pc = "write"
    /\ \E k, l \in DOMAIN canvas.tiles :
          /\ k < l
          /\ Overlap(TileRect(canvas.tiles[k]), TileRect(canvas.tiles[l]))
    /\ \E k, l \in DOMAIN canvas.tiles :
          canvas.tiles[k].x # canvas.tiles[l].x

(* the image and pixel wands the running cycle has created and not         *)
(* destroyed: those its wallpaper_load() calls left behind, the tiles in   *)
(* the slots of wallpapers[], and the canvas                               *)
LiveHandles ==
    cyc.live
      + Cardinality({i \in MonIdx : wallpapers[i] # NullImg})
      + (IF canvas # NullCanvas THEN 1 ELSE 0)

(* C30: when a cycle has ended, every handle it acquired is released: the  *)
(* number of live handles is zero.  Violated by the code on the NoSource   *)
(* and the rotate-failure path of wallpaper_load() and on the failure of   *)
(* the extent call of TILE.                                                *)
C30_NoLiveHandles ==
    pc = "idle" => LiveHandles = 0

====
